---- MODULE Spec2Model ----
(***************************************************************************)
(* Model of the meeting-room booking controller and of the layout merge    *)
(* of the Floor Plan Management System.                                    *)
(*                                                                         *)
(*   controllers/meetingRoomController.js  bookMeetingRoom                 *)
(*   utils/conflictResolution.js           resolveConflicts                *)
(*                                                                         *)
(* bookMeetingRoom is an async Express handler: between two awaits other   *)
(* handlers may run, so every await (findById, Booking.find, the two       *)
(* saves) is one atomic step of the model and the synchronous code that    *)
(* follows it belongs to the same step.                                    *)
(*                                                                         *)
(* Layouts are mappings from own keys to elements {value, timestamp};      *)
(* times and timestamps are integers.                                      *)
(***************************************************************************)
EXTENDS Integers, Sequences, FiniteSets

\* ---------------------------------------------------------------- bounds
NumHandlers == 2
MaxTime == 3
MaxRaceTime == 1
MaxParticipants == 2
MaxNow == 2
MaxTimestamp == 2
MaxCapacity == 2

\* ------------------------------------------------------------- constants
\* lastBooked of a room that was never booked (the field is unset)
NeverBooked == 0

\* the invocations of the handler, one per request, in order of arrival
Handlers == 1..NumHandlers
\* the rooms of the MeetingRoom collection; "R0" is an id of no document
RoomIds == {"R1", "R2"}
UnknownRoom == "R0"
Times == 0..MaxTime

\* req.body of a call that has not started
NoRequest == [roomId |-> UnknownRoom, participants |-> 0, startTime |-> 0, endTime |-> 0]
\* req.body values with startTime < endTime and at least one participant;
\* one request stands for those that name no room of the collection
ValidRequests ==
  { r \in [roomId : RoomIds, participants : 1..MaxParticipants,
           startTime : Times, endTime : Times] : r.startTime < r.endTime }
  \cup {[roomId |-> UnknownRoom, participants |-> 1, startTime |-> 0, endTime |-> 1]}

\* the requests of concurrent handlers lie within a shorter horizon, which
\* keeps their interleavings enumerable
ConcurrentRequests == { r \in ValidRequests : r.endTime <= MaxRaceTime }

\* capacity of the rooms of the collection (set when a room is created)
Capacity == [id \in RoomIds |-> IF id = "R1" THEN 1 ELSE 2]

\* the local MeetingRoom document of a handler before findById resolves
NoRoom == [capacity |-> 0, lastBooked |-> NeverBooked]
\* no response has been sent yet
NoResponse == [status |-> "none", roomId |-> UnknownRoom]

VARIABLES
  rooms,        \* MeetingRoom collection: roomId -> [capacity, lastBooked]
  bookings,     \* Booking collection, in insertion order (index = _id)
  pc,           \* the await each handler is suspended at, "idle" before its
                \* request arrives and "done" after its response
  req,          \* req.body of each handler
  meetingRoom,  \* the document findById returned to each handler
  newBooking,   \* _id of the Booking the handler saved, 0 before the save
  sent,         \* the response sent last and the room its request named
  now,          \* latest wall-clock time read by new Date()
  existingLayout, newLayout, thirdLayout,  \* inputs of resolveConflicts
  resolved,     \* results of resolveConflicts
  suggested,    \* the response suggestMeetingRoom sent last
  flags,        \* booked / bookedBy of the rooms of meetingRoomService.js
  svc           \* the callers of the service: position, room found, result

bookingVars == <<rooms, bookings, pc, req, meetingRoom, newBooking, sent, now>>
layoutVars == <<existingLayout, newLayout, thirdLayout, resolved>>
selectorVars == <<suggested>>
serviceVars == <<flags, svc>>
vars == <<rooms, bookings, pc, req, meetingRoom, newBooking, sent, now,
          existingLayout, newLayout, thirdLayout, resolved, suggested, flags, svc>>

\* ------------------------------------------------- overlap query (240-247)
\* canonical half-open predicate: a.start < b.end AND b.start < a.end
Overlaps(a, b) == a.startTime < b.endTime /\ b.startTime < a.endTime

\* variants of the filter: containment only with strict bounds, clause 2
\* testing endTime against startTime, clause 1 with inclusive bounds
OrQueryStrictInside(b, startTime, endTime) ==
  \/ (b.startTime < startTime /\ b.endTime > endTime)
  \/ (b.startTime > startTime /\ b.endTime < endTime)

OrQueryClause2Typo(b, startTime, endTime) ==
  \/ (b.startTime < endTime /\ b.endTime > startTime)
  \/ (b.startTime <= startTime /\ b.endTime >= startTime)
  \/ (b.startTime >= startTime /\ b.endTime <= endTime)

OrQueryInclusive(b, startTime, endTime) ==
  \/ (b.startTime <= endTime /\ b.endTime >= startTime)
  \/ (b.startTime <= startTime /\ b.endTime >= endTime)
  \/ (b.startTime >= startTime /\ b.endTime <= endTime)

\* the $or filter of Booking.find, evaluated on one stored booking b for
\* the candidate interval [startTime, endTime) of the request
OrQuery(b, startTime, endTime) ==
  \/ (b.startTime < endTime /\ b.endTime > startTime)
  \/ (b.startTime <= startTime /\ b.endTime >= endTime)
  \/ (b.startTime >= startTime /\ b.endTime <= endTime)

\* variant: the filter lacks meetingRoom: roomId
overlappingBookingsAnyRoom(roomId, startTime, endTime) ==
  { i \in 1..Len(bookings) : OrQuery(bookings[i], startTime, endTime) }

\* Booking.find({ meetingRoom: roomId, $or: [...] }): indices of the matches
overlappingBookings(roomId, startTime, endTime) ==
  { i \in 1..Len(bookings) :
      /\ bookings[i].meetingRoom = roomId
      /\ OrQuery(bookings[i], startTime, endTime) }

\* variant: the check lets one participant too many through
ExceedsCapacityOffByOne(participants, room) == participants > room.capacity + 1

\* participants > meetingRoom.capacity (236)
ExceedsCapacity(participants, room) == participants > room.capacity

Idle(h) == pc[h] = "idle"

\* ------------------------------------------------------------------ Init
\* an empty Booking collection and two rooms that were never booked
InitBooking ==
  /\ rooms = [id \in RoomIds |-> [capacity |-> Capacity[id], lastBooked |-> NeverBooked]]
  /\ bookings = <<>>
  /\ pc = [h \in Handlers |-> "idle"]
  /\ req = [h \in Handlers |-> NoRequest]
  /\ meetingRoom = [h \in Handlers |-> NoRoom]
  /\ newBooking = [h \in Handlers |-> 0]
  /\ sent = NoResponse
  /\ now = 1

\* ------------------------------------------- bookMeetingRoom (227-263)
\* a request arrives: const { roomId, bookedBy, participants, ... } = req.body
Start(h, r) ==
  /\ Idle(h)
  /\ \A g \in Handlers : g < h => ~Idle(g)
  /\ req' = [req EXCEPT ![h] = r]
  /\ pc' = [pc EXCEPT ![h] = "findRoom"]
  /\ UNCHANGED <<rooms, bookings, meetingRoom, newBooking, sent, now, layoutVars, selectorVars, serviceVars>>

\* return res.status(...).json(...): the handler ends and its locals die
Respond(h, status) ==
  /\ sent' = [status |-> status, roomId |-> req[h].roomId]
  /\ pc' = [pc EXCEPT ![h] = "done"]
  /\ req' = [req EXCEPT ![h] = NoRequest]
  /\ meetingRoom' = [meetingRoom EXCEPT ![h] = NoRoom]
  /\ newBooking' = [newBooking EXCEPT ![h] = 0]

\* await MeetingRoom.findById(roomId), the 404 and the capacity check
FindRoom(h) ==
  /\ pc[h] = "findRoom"
  /\ IF req[h].roomId \notin DOMAIN rooms
       THEN Respond(h, "NotFound")
       ELSE IF ExceedsCapacity(req[h].participants, rooms[req[h].roomId])
              THEN Respond(h, "CapacityExceeded")
              ELSE /\ meetingRoom' = [meetingRoom EXCEPT ![h] = rooms[req[h].roomId]]
                   /\ pc' = [pc EXCEPT ![h] = "findBookings"]
                   /\ UNCHANGED <<req, newBooking, sent>>
  /\ UNCHANGED <<rooms, bookings, now, layoutVars, selectorVars, serviceVars>>

\* variant: the room is stamped before the conflict check rejects
FindBookingsStamped(h) ==
  /\ pc[h] = "findBookings"
  /\ IF Cardinality(overlappingBookings(req[h].roomId, req[h].startTime, req[h].endTime)) > 0
       THEN /\ Respond(h, "SlotConflict")
            /\ rooms' = [rooms EXCEPT ![req[h].roomId].lastBooked = now]
       ELSE /\ pc' = [pc EXCEPT ![h] = "saveBooking"]
            /\ UNCHANGED <<req, meetingRoom, newBooking, sent, rooms>>
  /\ UNCHANGED <<bookings, now, layoutVars, selectorVars, serviceVars>>

\* await Booking.find({...}) and the conflict check
FindBookings(h) ==
  /\ pc[h] = "findBookings"
  /\ IF Cardinality(overlappingBookings(req[h].roomId, req[h].startTime, req[h].endTime)) > 0
       THEN Respond(h, "SlotConflict")
       ELSE /\ pc' = [pc EXCEPT ![h] = "saveBooking"]
            /\ UNCHANGED <<req, meetingRoom, newBooking, sent>>
  /\ UNCHANGED <<rooms, bookings, now, layoutVars, selectorVars, serviceVars>>

\* await newBooking.save(), then meetingRoom.lastBooked = new Date(): the
\* clock is read at some time not before the time read last
SaveBooking(h) ==
  /\ pc[h] = "saveBooking"
  /\ bookings' = Append(bookings,
        [meetingRoom |-> req[h].roomId, participants |-> req[h].participants,
         startTime |-> req[h].startTime, endTime |-> req[h].endTime])
  /\ newBooking' = [newBooking EXCEPT ![h] = Len(bookings) + 1]
  /\ \E date \in now..MaxNow :
       /\ now' = date
       /\ meetingRoom' = [meetingRoom EXCEPT ![h].lastBooked = date]
  /\ pc' = [pc EXCEPT ![h] = "saveRoom"]
  /\ UNCHANGED <<rooms, req, sent, layoutVars, selectorVars, serviceVars>>

\* await meetingRoom.save() (writes the modified path lastBooked), then 201
SaveRoom(h) ==
  /\ pc[h] = "saveRoom"
  /\ rooms' = [rooms EXCEPT ![req[h].roomId].lastBooked = meetingRoom[h].lastBooked]
  /\ Respond(h, "Booked")
  /\ UNCHANGED <<bookings, now, layoutVars, selectorVars, serviceVars>>

\* a store operation rejects: catch (error) { res.status(500) }
StoreFail(h) ==
  /\ pc[h] \in {"findRoom", "findBookings", "saveBooking", "saveRoom"}
  /\ Respond(h, "Error")
  /\ UNCHANGED <<rooms, bookings, now, layoutVars, selectorVars, serviceVars>>

\* a call that starts only when every other call has completed
StartAlone(h, r) ==
  /\ \A g \in Handlers : pc[g] \in {"idle", "done"}
  /\ Start(h, r)

Step(h) == FindRoom(h) \/ FindBookings(h) \/ SaveBooking(h) \/ SaveRoom(h)

\* -------------------------------------------- resolveConflicts (78-92)
Keys == {"k1", "k2"}
Values == {"v1", "v2"}
Timestamps == 1..MaxTimestamp
\* a layout element: an opaque value and the timestamp of its writer
Elements == [value : Values, timestamp : Timestamps]
\* a layout maps some keys to elements
Layouts == UNION { [D -> Elements] : D \in SUBSET Keys }
EmptyLayout == [k \in {} |-> [value |-> "v1", timestamp |-> 1]]

\* variants of the comparison: any different timestamp wins, the older wins
NewerOrOlder(value, old) == value.timestamp # old.timestamp

Older(value, old) == value.timestamp < old.timestamp

\* value.timestamp > existingLayout[key].timestamp (83)
Newer(value, old) == value.timestamp > old.timestamp

\* variant: resolvedLayout starts empty instead of as a copy of existingLayout
resolveConflictsNoCopy(existing, new) ==
  [key \in { k \in DOMAIN new :
               k \in DOMAIN existing => Newer(new[k], existing[k]) } |-> new[key]]

\* resolvedLayout starts as a copy of existingLayout; every entry of
\* newLayout replaces it when the key is new or the entry is newer
resolveConflicts(existing, new) ==
  [key \in DOMAIN existing \cup DOMAIN new |->
     IF key \in DOMAIN new
       THEN IF key \in DOMAIN existing
              THEN IF Newer(new[key], existing[key]) THEN new[key] ELSE existing[key]
              ELSE new[key]
       ELSE existing[key]]

\* no merge has been computed
Unresolved == [done |-> FALSE, ab |-> EmptyLayout, ba |-> EmptyLayout,
               abThenC |-> EmptyLayout, aThenBc |-> EmptyLayout,
               aa |-> EmptyLayout, abThenB |-> EmptyLayout]

\* the merges of the three layouts, in both orders and both groupings, of
\* a layout with itself and of a merge with its second input again
Resolve ==
  /\ ~resolved.done
  /\ resolved' = [done |-> TRUE,
                  ab |-> resolveConflicts(existingLayout, newLayout),
                  ba |-> resolveConflicts(newLayout, existingLayout),
                  abThenC |-> resolveConflicts(resolveConflicts(existingLayout, newLayout), thirdLayout),
                  aThenBc |-> resolveConflicts(existingLayout, resolveConflicts(newLayout, thirdLayout)),
                  aa |-> resolveConflicts(existingLayout, existingLayout),
                  abThenB |-> resolveConflicts(resolveConflicts(existingLayout, newLayout), newLayout)]
  /\ UNCHANGED <<bookingVars, existingLayout, newLayout, thirdLayout,
                 selectorVars, serviceVars>>

\* variant: the incoming layout replaces the stored one without a merge
MergeIncomingReplace(incoming) ==
  /\ newLayout' = incoming
  /\ existingLayout' = incoming
  /\ UNCHANGED <<bookingVars, thirdLayout, resolved, selectorVars, serviceVars>>

\* the stored layout is replaced by its merge with an incoming layout
MergeIncoming(incoming) ==
  /\ newLayout' = incoming
  /\ existingLayout' = resolveConflicts(existingLayout, incoming)
  /\ UNCHANGED <<bookingVars, thirdLayout, resolved, selectorVars, serviceVars>>

\* ------------------------------------------- suggestMeetingRoom (203-223)
\* no suggestion has been asked for
NoSuggestion == [status |-> "none", roomId |-> UnknownRoom, participants |-> 0]

InitSelector == suggested = NoSuggestion

\* variants of the sort: largest capacity first, most recently booked first
BeforeLargest(a, b) ==
  \/ a.capacity > b.capacity
  \/ (a.capacity = b.capacity /\ a.lastBooked < b.lastBooked)

BeforeMostRecent(a, b) ==
  \/ a.capacity < b.capacity
  \/ (a.capacity = b.capacity /\ a.lastBooked > b.lastBooked)

\* .sort({ capacity: 1, lastBooked: 1 }): room a sorts before room b; a room
\* that was never booked has no lastBooked and sorts before any date
Before(a, b) ==
  \/ a.capacity < b.capacity
  \/ (a.capacity = b.capacity /\ a.lastBooked < b.lastBooked)

\* MeetingRoom.find({ capacity: { $gte: participants } })
suitableRooms(participants) ==
  { id \in DOMAIN rooms : rooms[id].capacity >= participants }

\* the rooms that can be rooms[0]: the sort has no further key, and the order
\* of documents with equal sort keys is not specified by the store
firstRooms(participants) ==
  { id \in suitableRooms(participants) :
      \A other \in suitableRooms(participants) : ~Before(rooms[other], rooms[id]) }

\* the handler: one await, then 404 or 200 with rooms[0]
suggestMeetingRoom(participants) ==
  /\ IF Cardinality(suitableRooms(participants)) = 0
       THEN suggested' = [status |-> "NotFound", roomId |-> UnknownRoom,
                          participants |-> participants]
       ELSE \E suitableRoom \in firstRooms(participants) :
              suggested' = [status |-> "Suggested", roomId |-> suitableRoom,
                            participants |-> participants]
  /\ UNCHANGED <<bookingVars, layoutVars, serviceVars>>

\* the caller asks for a suggestion when no call is running, always for the
\* participant count of its first request
SuggestNext(participants) ==
  /\ \A g \in Handlers : pc[g] \in {"idle", "done"}
  /\ suggested.status = "none" \/ participants = suggested.participants
  /\ suggestMeetingRoom(participants)

\* number of committed bookings of a room
Count(id) == Cardinality({ i \in 1..Len(bookings) : bookings[i].meetingRoom = id })

\* the caller books the suggested room for the hour that follows the hours
\* already booked in it: a new invocation of bookMeetingRoom, the
\* suggestion is used up
BookSuggested(h, startTime) ==
  /\ suggested.status = "Suggested"
  /\ startTime = Count(suggested.roomId)
  /\ \A g \in Handlers : pc[g] \in {"idle", "done"}
  /\ req' = [req EXCEPT ![h] = [roomId |-> suggested.roomId,
                                participants |-> suggested.participants,
                                startTime |-> startTime, endTime |-> startTime + 1]]
  /\ pc' = [pc EXCEPT ![h] = "findRoom"]
  /\ suggested' = [suggested EXCEPT !.status = "Used"]
  /\ UNCHANGED <<rooms, bookings, meetingRoom, newBooking, sent, now, layoutVars, serviceVars>>

\* ------------------------- services/meetingRoomService.js (README 206-229)
\* a caller of the service that has not called yet
NoCaller == [pc |-> "idle", roomId |-> UnknownRoom, capacity |-> 0]

InitService ==
  /\ flags = [id \in RoomIds |-> [booked |-> FALSE, bookedBy |-> 0]]
  /\ svc = [h \in Handlers |-> NoCaller]

\* MeetingRoom.find({ booked: false, capacity: { $gte: requirements.capacity } })
availableRooms(capacity) ==
  { id \in RoomIds : ~flags[id].booked /\ rooms[id].capacity >= capacity }

\* the rooms that can be availableRooms[0] after .sort({ capacity: 1 })
smallestAvailable(capacity) ==
  { id \in availableRooms(capacity) :
      \A other \in availableRooms(capacity) : rooms[other].capacity >= rooms[id].capacity }

\* bookMeetingRoom up to its first await: the find, the throw on an empty
\* result, the choice of availableRooms[0]
ServiceFind(h, capacity) ==
  /\ svc[h].pc = "idle"
  /\ \A g \in Handlers : g < h => svc[g].pc # "idle"
  /\ IF Cardinality(availableRooms(capacity)) = 0
       THEN svc' = [svc EXCEPT ![h] = [pc |-> "failed", roomId |-> UnknownRoom,
                                       capacity |-> capacity]]
       ELSE \E room \in smallestAvailable(capacity) :
              svc' = [svc EXCEPT ![h] = [pc |-> "save", roomId |-> room,
                                         capacity |-> capacity]]
  /\ UNCHANGED <<flags, bookingVars, layoutVars, selectorVars>>

\* room.booked = true; room.bookedBy = requirements.userId; await
\* room.save(); return room. The caller's identity stands for its userId
ServiceSave(h) ==
  /\ svc[h].pc = "save"
  /\ flags' = [flags EXCEPT ![svc[h].roomId] = [booked |-> TRUE, bookedBy |-> h]]
  /\ svc' = [svc EXCEPT ![h].pc = "returned"]
  /\ UNCHANGED <<bookingVars, layoutVars, selectorVars>>

\* -------------------------------------------------------- specifications
Init ==
  /\ InitBooking
  /\ InitSelector
  /\ InitService
  /\ existingLayout = EmptyLayout
  /\ newLayout = EmptyLayout
  /\ thirdLayout = EmptyLayout
  /\ resolved = Unresolved

\* concurrent handlers over a store that never throws
Next ==
  \/ \E h \in Handlers : \E r \in ConcurrentRequests : Start(h, r)
  \/ \E h \in Handlers : Step(h)

Spec == Init /\ [][Next]_vars

\* calls executed one at a time
NextSeq ==
  \/ \E h \in Handlers : \E r \in ValidRequests : StartAlone(h, r)
  \/ \E h \in Handlers : Step(h)

SpecSeq == Init /\ [][NextSeq]_vars

\* concurrent handlers over a store whose operations may throw
NextFail ==
  \/ Next
  \/ \E h \in Handlers : StoreFail(h)

SpecFail == Init /\ [][NextFail]_vars

\* the merge applied to three layouts drawn from the bounded sets
InitMerge ==
  /\ InitBooking
  /\ InitSelector
  /\ InitService
  /\ existingLayout \in Layouts
  /\ newLayout \in Layouts
  /\ thirdLayout \in Layouts
  /\ resolved = Unresolved

NextMerge == Resolve

SpecMerge == InitMerge /\ [][NextMerge]_vars

\* concurrent handlers with requests over the whole horizon
NextWide ==
  \/ \E h \in Handlers : \E r \in ValidRequests : Start(h, r)
  \/ \E h \in Handlers : Step(h)

SpecWide == Init /\ [][NextWide]_vars

\* a request body that carries no roomId
AbsentRoomId == "undefined"

\* request bodies as a client can send them: nothing is validated before
\* the handler runs
AnyRequests ==
  [roomId : RoomIds \cup {AbsentRoomId}, participants : 0..MaxParticipants,
   startTime : Times, endTime : Times]

\* calls executed one at a time, with any request body
NextAny ==
  \/ \E h \in Handlers : \E r \in AnyRequests : StartAlone(h, r)
  \/ \E h \in Handlers : Step(h)

SpecAny == Init /\ [][NextAny]_vars

\* rooms of any capacity, never booked; suggestions alternate with bookings
\* of the suggested room, all made by one caller
InitRotate ==
  /\ rooms \in [RoomIds -> [capacity : 1..MaxCapacity, lastBooked : {NeverBooked}]]
  /\ bookings = <<>>
  /\ pc = [h \in Handlers |-> "idle"]
  /\ req = [h \in Handlers |-> NoRequest]
  /\ meetingRoom = [h \in Handlers |-> NoRoom]
  /\ newBooking = [h \in Handlers |-> 0]
  /\ sent = NoResponse
  /\ now = 1
  /\ InitSelector
  /\ InitService
  /\ existingLayout = EmptyLayout
  /\ newLayout = EmptyLayout
  /\ thirdLayout = EmptyLayout
  /\ resolved = Unresolved

NextRotate ==
  \/ \E participants \in 1..MaxParticipants : SuggestNext(participants)
  \/ \E startTime \in 0..(MaxTime - 1) : BookSuggested(1, startTime)
  \/ \E h \in Handlers : Step(h)

SpecRotate == InitRotate /\ [][NextRotate]_vars

\* concurrent callers of the boolean-flag service over rooms of any capacity
NextService ==
  \/ \E h \in Handlers : \E capacity \in 1..MaxCapacity : ServiceFind(h, capacity)
  \/ \E h \in Handlers : ServiceSave(h)

SpecService == InitRotate /\ [][NextService]_vars

\* a stored layout that starts empty and receives any sequence of layouts
InitSync ==
  /\ InitBooking
  /\ InitSelector
  /\ InitService
  /\ existingLayout = EmptyLayout
  /\ newLayout = EmptyLayout
  /\ thirdLayout = EmptyLayout
  /\ resolved = Unresolved

NextSync == \E incoming \in Layouts : MergeIncoming(incoming)

SpecSync == InitSync /\ [][NextSync]_vars

\* ================================================================ claims
Rejections == {"NotFound", "CapacityExceeded", "SlotConflict"}

\* bookings of room id other than the one handler h saved in its call
OthersOn(h, id) ==
  { i \in 1..Len(bookings) : i # newBooking[h] /\ bookings[i].meetingRoom = id }

\* handler h sends its response in this step
Responds(h) == pc[h] # "done" /\ pc'[h] = "done"

\* C1: of concurrent calls for the same room with overlapping intervals
\* exactly one commits a Booking: once a call has saved its Booking, no
\* other committed Booking of the same room overlaps it
C1_OneWinner ==
  \A h \in Handlers :
    newBooking[h] # 0 =>
      \A i \in OthersOn(h, req[h].roomId) : ~Overlaps(bookings[i], req[h])

\* C2: when calls run one at a time, the committed bookings of every room
\* are pairwise non-overlapping under the half-open predicate
C2_NoOverlap ==
  \A i, j \in 1..Len(bookings) :
    (i # j /\ bookings[i].meetingRoom = bookings[j].meetingRoom)
    => ~Overlaps(bookings[i], bookings[j])

C2_Witness ==
  /\ \E i, j \in 1..Len(bookings) :
       i # j /\ bookings[i].meetingRoom = bookings[j].meetingRoom
  /\ sent.status = "Booked"
  /\ \A h \in Handlers : pc[h] = "done"

\* C3: a call answered 404, capacity-exceeded or slot-conflict has written
\* nothing: it saved no Booking before, and the step that sends the
\* rejection leaves both collections unchanged
C3_RejectionWritesNothing ==
  [][ \A h \in Handlers :
        (Responds(h) /\ sent'.status \in Rejections)
        => (newBooking[h] = 0 /\ rooms' = rooms /\ bookings' = bookings) ]_vars

C3_Witness ==
  /\ sent.status = "SlotConflict"
  /\ Len(bookings) > 0
  /\ \E id \in RoomIds : rooms[id].lastBooked # NeverBooked

\* C4: a call that ends in the error response has persisted either both
\* the Booking and the room update or neither
C4_NoPartialCommit ==
  [][ \A h \in Handlers :
        (Responds(h) /\ sent'.status = "Error")
        => \/ (newBooking[h] = 0 /\ bookings' = bookings /\ rooms' = rooms)
           \/ (newBooking[h] # 0
                 /\ rooms'[req[h].roomId].lastBooked = meetingRoom[h].lastBooked) ]_vars

\* C5: for intervals with start < end the three-clause filter selects a
\* stored booking exactly when the half-open predicate holds
C5_QueryIsHalfOpen ==
  \A h \in Handlers :
    pc[h] = "findBookings" =>
      \A i \in 1..Len(bookings) :
        OrQuery(bookings[i], req[h].startTime, req[h].endTime)
          <=> Overlaps(bookings[i], req[h])

C5_Witness ==
  \E h \in Handlers :
    /\ pc[h] = "findBookings"
    /\ \E i \in 1..Len(bookings) :
         /\ bookings[i].meetingRoom = req[h].roomId
         /\ req[h].startTime < bookings[i].startTime
         /\ bookings[i].endTime < req[h].endTime

\* the request of h touches a committed booking of its room at a boundary
\* instant, overlaps none of them and is within the capacity of the room
BackToBack(h) ==
  /\ req[h].roomId \in DOMAIN rooms
  /\ req[h].participants <= rooms[req[h].roomId].capacity
  /\ \E i \in OthersOn(h, req[h].roomId) :
       \/ bookings[i].endTime = req[h].startTime
       \/ bookings[i].startTime = req[h].endTime
  /\ \A i \in OthersOn(h, req[h].roomId) : ~Overlaps(bookings[i], req[h])

\* C6: a back-to-back request passes the conflict check, its Booking is
\* committed as requested and the call is answered 201
C6_BackToBackAccepted ==
  [][ \A h \in Handlers :
        (BackToBack(h) /\ pc'[h] # pc[h]) =>
          /\ pc[h] = "findRoom" => pc'[h] = "findBookings"
          /\ pc[h] = "findBookings" => pc'[h] = "saveBooking"
          /\ pc[h] = "saveBooking" =>
               /\ pc'[h] = "saveRoom"
               /\ bookings' = Append(bookings,
                    [meetingRoom |-> req[h].roomId, participants |-> req[h].participants,
                     startTime |-> req[h].startTime, endTime |-> req[h].endTime])
          /\ pc[h] = "saveRoom" => (sent'.status = "Booked" /\ bookings' = bookings) ]_vars

C6_Witness ==
  \E h \in Handlers :
    /\ pc[h] = "saveRoom" /\ BackToBack(h)
    /\ newBooking[h] = Len(bookings)
    /\ \E i \in OthersOn(h, req[h].roomId) : bookings[i].endTime = req[h].startTime

\* C7: every committed booking has participants <= capacity of its room,
\* and a call with participants > capacity is answered capacity-exceeded
\* without a write, whatever bookings the room has
C7_WithinCapacity ==
  [][ /\ \A i \in 1..Len(bookings') :
           bookings'[i].participants <= rooms'[bookings'[i].meetingRoom].capacity
      /\ \A h \in Handlers :
           (pc'[h] # pc[h] /\ req[h].roomId \in DOMAIN rooms
              /\ req[h].participants > rooms[req[h].roomId].capacity)
           => (sent'.status = "CapacityExceeded" /\ Responds(h)
                 /\ bookings' = bookings /\ rooms' = rooms) ]_vars

C7_Witness ==
  /\ sent.status = "CapacityExceeded"
  /\ \E i \in 1..Len(bookings) : bookings[i].meetingRoom = sent.roomId

\* C8: resolveConflicts(A, B) = resolveConflicts(B, A)
C8_Commutative ==
  resolved.done => resolved.ab = resolved.ba

\* C9: resolveConflicts(resolveConflicts(A, B), C)
\*       = resolveConflicts(A, resolveConflicts(B, C))
C9_Associative ==
  resolved.done => resolved.abThenC = resolved.aThenBc

C9_Witness ==
  /\ resolved.done
  /\ \E key \in DOMAIN existingLayout \cap DOMAIN newLayout \cap DOMAIN thirdLayout :
       /\ existingLayout[key].timestamp = newLayout[key].timestamp
       /\ newLayout[key].timestamp = thirdLayout[key].timestamp
       /\ existingLayout[key].value # newLayout[key].value

\* C10: the keys of the merge are the union of the keys of the inputs; a
\* key of one input only keeps its element; a key of both with different
\* timestamps gets the element with the greater timestamp
C10_UnionAndNewest ==
  resolved.done =>
    /\ DOMAIN resolved.ab = DOMAIN existingLayout \cup DOMAIN newLayout
    /\ \A key \in DOMAIN existingLayout \ DOMAIN newLayout :
         resolved.ab[key] = existingLayout[key]
    /\ \A key \in DOMAIN newLayout \ DOMAIN existingLayout :
         resolved.ab[key] = newLayout[key]
    /\ \A key \in DOMAIN existingLayout \cap DOMAIN newLayout :
         /\ existingLayout[key].timestamp > newLayout[key].timestamp
              => resolved.ab[key] = existingLayout[key]
         /\ newLayout[key].timestamp > existingLayout[key].timestamp
              => resolved.ab[key] = newLayout[key]

C10_Witness ==
  /\ resolved.done
  /\ "k1" \in DOMAIN existingLayout \cap DOMAIN newLayout
  /\ newLayout["k1"].timestamp > existingLayout["k1"].timestamp
  /\ newLayout["k1"].value # existingLayout["k1"].value
  /\ resolved.ab["k1"] = newLayout["k1"]
  /\ "k2" \in DOMAIN newLayout \ DOMAIN existingLayout
\* C11: resolveConflicts is idempotent: a layout merged with itself is that
\* layout, and merging the same incoming layout a second time changes nothing
C11_Idempotent ==
  resolved.done =>
    /\ resolved.aa = existingLayout
    /\ resolved.abThenB = resolved.ab

\* a merge whose incoming layout replaced one entry and lost on another
C11_Witness ==
  /\ resolved.done
  /\ \E k \in DOMAIN existingLayout \cap DOMAIN newLayout :
       resolved.ab[k] = newLayout[k] /\ newLayout[k] # existingLayout[k]
  /\ \E k \in DOMAIN existingLayout \cap DOMAIN newLayout :
       resolved.ab[k] = existingLayout[k] /\ newLayout[k] # existingLayout[k]

\* the timestamp a layout holds under a key, 0 when it has no such key
TimestampOf(layout, key) ==
  IF key \in DOMAIN layout THEN layout[key].timestamp ELSE 0

Max(a, b) == IF a >= b THEN a ELSE b

\* C20: every merge of an incoming layout into the stored layout keeps all
\* stored keys, lowers no stored timestamp, and leaves under each key the
\* maximum of the stored and the incoming timestamp
C20_StoredOnlyGrows ==
  [][ /\ DOMAIN existingLayout \subseteq DOMAIN existingLayout'
      /\ \A k \in DOMAIN existingLayout :
           existingLayout'[k].timestamp >= existingLayout[k].timestamp
      /\ \A k \in DOMAIN existingLayout' :
           existingLayout'[k].timestamp =
             Max(TimestampOf(existingLayout, k), TimestampOf(newLayout', k)) ]_vars

\* after a merge the stored layout holds an entry newer than the incoming
\* one under one key and a key the incoming layout did not have
C20_Witness ==
  /\ \E k \in DOMAIN newLayout :
       existingLayout[k].timestamp > newLayout[k].timestamp
  /\ DOMAIN existingLayout \ DOMAIN newLayout # {}

\* C12: suggestMeetingRoom answers not-found exactly when no room has
\* capacity >= n, and otherwise suggests a room with capacity >= n such
\* that no sufficient room has a strictly smaller capacity
C12_SmallestSufficient ==
  /\ suggested.status = "NotFound" =>
       \A id \in RoomIds : rooms[id].capacity < suggested.participants
  /\ suggested.status \in {"Suggested", "Used"} =>
       /\ rooms[suggested.roomId].capacity >= suggested.participants
       /\ \A id \in RoomIds :
            rooms[id].capacity >= suggested.participants =>
              rooms[id].capacity >= rooms[suggested.roomId].capacity

\* a room is suggested while a strictly larger room is sufficient as well
C12_Witness ==
  /\ suggested.status = "Suggested"
  /\ \E id \in RoomIds :
       /\ rooms[id].capacity >= suggested.participants
       /\ rooms[id].capacity > rooms[suggested.roomId].capacity

\* position of a room's identity in ascending order of identities
Identity == [id \in RoomIds |-> IF id = "R1" THEN 1 ELSE 2]

\* room a precedes room b in the order (capacity, lastBooked, identity)
BeforeTotal(a, b) ==
  \/ Before(rooms[a], rooms[b])
  \/ (~Before(rooms[b], rooms[a]) /\ Identity[a] < Identity[b])

\* C13: every suggestion is the minimum of the sufficient rooms under the
\* total order (capacity, lastBooked, identity): among sufficient rooms that
\* tie on capacity and lastBooked the smallest identity is suggested
C13_Deterministic ==
  [][ (suggested' # suggested /\ suggested'.status = "Suggested") =>
        \A id \in suitableRooms(suggested'.participants) \ {suggested'.roomId} :
          BeforeTotal(suggested'.roomId, id) ]_vars

\* C14: a call without roomId is delegated to the selector: when some
\* room has capacity >= participants the call is not answered not-found
C14_DelegatesToSelector ==
  [][ \A h \in Handlers :
        ( /\ Responds(h)
          /\ req[h].roomId = AbsentRoomId
          /\ suitableRooms(req[h].participants) # {} ) =>
            sent'.status # "NotFound" ]_vars

\* the bookings of a collection that are of rooms other than id, in
\* insertion order
OnOtherRooms(collection, id) == SelectSeq(collection, LAMBDA b : b.meetingRoom # id)

\* C15: calls on different rooms are independent. A call in flight can
\* always take its next step, whatever the other calls do; its outcome is
\* decided by the record and the bookings of its own room alone (capacity
\* rejection by the room's capacity, slot rejection by an overlapping
\* booking of that room); and none of its steps changes the record or the
\* bookings of another room
C15_RoomsIndependent ==
  [][ \A h \in Handlers :
        /\ pc[h] \notin {"idle", "done"} => ENABLED Step(h)
        /\ (pc[h] \notin {"idle", "done"} /\ pc'[h] # pc[h]) =>
             /\ \A id \in RoomIds \ {req[h].roomId} : rooms'[id] = rooms[id]
             /\ OnOtherRooms(bookings', req[h].roomId) = OnOtherRooms(bookings, req[h].roomId)
        /\ (pc[h] = "findRoom" /\ pc'[h] # pc[h] /\ req[h].roomId \in RoomIds) =>
             (sent'.status = "CapacityExceeded" /\ pc'[h] = "done"
                <=> req[h].participants > rooms[req[h].roomId].capacity)
        /\ (pc[h] = "findBookings" /\ pc'[h] # pc[h]) =>
             (sent'.status = "SlotConflict" /\ pc'[h] = "done"
                <=> \E i \in 1..Len(bookings) :
                      /\ bookings[i].meetingRoom = req[h].roomId
                      /\ Overlaps(bookings[i], req[h])) ]_vars

\* a call was accepted although a booking of another room overlaps its
\* interval
C15_Witness ==
  /\ sent.status = "Booked"
  /\ \E i, j \in 1..Len(bookings) :
       /\ bookings[i].meetingRoom # bookings[j].meetingRoom
       /\ Overlaps(bookings[i], bookings[j])

\* no two committed bookings of one room overlap
NoDoubleBooking ==
  \A i, j \in 1..Len(bookings) :
    (i # j /\ bookings[i].meetingRoom = bookings[j].meetingRoom)
    => ~Overlaps(bookings[i], bookings[j])

\* C16: a call answered 201 has created exactly one Booking and its last
\* step changes nothing but the lastBooked of the target room; whatever
\* the interleaving of successful calls on a room, its lastBooked follows
\* the most recently created Booking and therefore never decreases. The
\* formula looks only at runs without double booking, so that it speaks of
\* calls that were all accepted rightly
C16_LastBookedFollowsBookings ==
  [][ NoDoubleBooking' =>
        /\ Len(bookings') <= Len(bookings) + 1
        /\ \A h \in Handlers :
             (Responds(h) /\ sent'.status = "Booked") =>
               /\ newBooking[h] \in 1..Len(bookings)
               /\ bookings' = bookings
               /\ \A id \in RoomIds :
                    /\ rooms'[id].capacity = rooms[id].capacity
                    /\ id # req[h].roomId => rooms'[id] = rooms[id]
        /\ \A id \in RoomIds : rooms'[id].lastBooked >= rooms[id].lastBooked ]_vars

\* C17: every committed Booking has startTime < endTime and
\* participants > 0
C17_ValidBookings ==
  \A i \in 1..Len(bookings) :
    /\ bookings[i].startTime < bookings[i].endTime
    /\ bookings[i].participants > 0

\* C19: in the boolean-flag service no room is handed to two callers: a
\* room that is booked keeps its bookedBy, no two calls return the same
\* room, and a call fails exactly when every sufficient room is booked
C19_NoDoubleHandout ==
  [][ /\ \A id \in RoomIds : flags[id].booked => flags'[id] = flags[id]
      /\ \A h, g \in Handlers :
           (h # g /\ svc'[h].pc = "returned" /\ svc'[g].pc = "returned")
           => svc'[h].roomId # svc'[g].roomId
      /\ \A h \in Handlers :
           (svc[h].pc = "idle" /\ svc'[h].pc # "idle") =>
             (svc'[h].pc = "failed" <=>
                \A id \in RoomIds :
                  rooms[id].capacity >= svc'[h].capacity => flags[id].booked) ]_vars

\* the rooms of the smallest capacity that suffices for n participants
SmallestSufficient(n) ==
  { id \in suitableRooms(n) :
      \A other \in suitableRooms(n) : rooms[other].capacity >= rooms[id].capacity }

\* the booking counts of the rooms that share the smallest sufficient
\* capacity differ by at most one
Balanced ==
  \A a, b \in SmallestSufficient(suggested.participants) : Count(a) - Count(b) <= 1

\* the lastBooked a room carries once the call that has saved a Booking
\* of it has saved the room as well
Stamp(id) ==
  IF \E h \in Handlers : pc[h] = "saveRoom" /\ req[h].roomId = id
    THEN meetingRoom[CHOOSE h \in Handlers :
                       pc[h] = "saveRoom" /\ req[h].roomId = id].lastBooked
    ELSE rooms[id].lastBooked

\* no two of those rooms carry the same date in lastBooked
NoTie ==
  \A a, b \in SmallestSufficient(suggested.participants) :
    (a # b /\ Stamp(a) = Stamp(b)) => Stamp(a) = NeverBooked

\* of two of those rooms, the one with more bookings was booked later
LeaderIsNewer ==
  \A a, b \in SmallestSufficient(suggested.participants) :
    Count(a) > Count(b) => Stamp(a) > Stamp(b)

\* C18 as stated: while every step asks for a suggestion for n and books the
\* suggested room, the numbers of bookings of any two rooms that share the
\* smallest sufficient capacity differ by at most one at every point
C18_Rotation == Balanced

\* C18 amended: every suggestion is a room of the smallest sufficient
\* capacity whose lastBooked is the oldest (or absent) among those rooms, and
\* the booking counts of those rooms stay within one of each other in every
\* run in which no two of them ever carry the same lastBooked date. The
\* second part is stated as its induction step: from a state without a tie
\* where the counts are within one and the room with more bookings is the
\* newer one, every step leads to such a state again or to a tie
C18_RotationUnlessTied ==
  [][ /\ (suggested' # suggested /\ suggested'.status = "Suggested") =>
           /\ suggested'.roomId \in SmallestSufficient(suggested'.participants)
           /\ \A id \in SmallestSufficient(suggested'.participants) :
                rooms[suggested'.roomId].lastBooked <= rooms[id].lastBooked
      /\ (NoTie /\ Balanced /\ LeaderIsNewer) =>
           (Balanced' /\ (NoTie' => LeaderIsNewer')) ]_vars

\* both rooms were booked once, at different dates, and the next
\* suggestion is the room that was booked first
C18_Witness ==
  /\ NoTie
  /\ suggested.status = "Suggested"
  /\ \E b \in SmallestSufficient(suggested.participants) :
       /\ Count(suggested.roomId) = 1 /\ Count(b) = 1
       /\ rooms[suggested.roomId].lastBooked # NeverBooked
       /\ rooms[suggested.roomId].lastBooked < rooms[b].lastBooked

====
